---- MODULE Spec2Model ----
(***************************************************************************)
(* Model of src/components/ui/tool.tsx: the ToolInvocations view component *)
(* and its helper capitalizeAndReplaceUnderscores.                         *)
(*                                                                         *)
(* Text whose characters the code inspects (tool names, parameter names)   *)
(* is a sequence of UTF-16 code units; text the code only concatenates     *)
(* (stringified values, data URIs) is a string.  A JavaScript value is a   *)
(* record tagged by t: "undefined", "null", "string", "number", "array",   *)
(* "object".                                                               *)
(***************************************************************************)
EXTENDS Integers, Sequences, FiniteSets, TLC

VARIABLES
    toolInvocations,  \* the toolInvocations prop of the latest render
    onImageClick,     \* TRUE iff the onImageClick prop is supplied
    output,           \* what the latest call of ToolInvocations returned
    calls,            \* arguments of the onImageClick invocations so far
    clickLog,         \* src attribute of each thumbnail the user clicked
    str,              \* input of capitalizeAndReplaceUnderscores
    display           \* its result, once it has run

vars == <<toolInvocations, onImageClick, output, calls, clickLog, str, display>>

\* ------------------------------------------------------------ bounds
MaxLen == 3
MaxInvocations == 2
MaxClicks == 2

\* ------------------------------------------------ JavaScript values
Undefined == [t |-> "undefined"]
Null == [t |-> "null"]
JStr(s) == [t |-> "string", v |-> s]
JNum(n) == [t |-> "number", v |-> n]
JArr(items) == [t |-> "array", items |-> items]
\* a plain object, given by its entries in iteration order
JObj(entries) == [t |-> "object", entries |-> entries]

\* ToBoolean
Truthy(v) ==
    CASE v.t = "undefined" -> FALSE
      [] v.t = "null" -> FALSE
      [] v.t = "string" -> v.v # ""
      [] v.t = "number" -> v.v # 0
      [] OTHER -> TRUE

RECURSIVE JsString(_)
RECURSIVE JoinItems(_)
\* Array.prototype.join(","): null and undefined elements give ""
JoinItems(items) ==
    IF items = <<>> THEN ""
    ELSE LET h == Head(items)
             hs == IF h.t \in {"undefined", "null"} THEN "" ELSE JsString(h)
         IN  IF Len(items) = 1 THEN hs ELSE hs \o "," \o JoinItems(Tail(items))

\* String(v), also the conversion a template literal applies
JsString(v) ==
    CASE v.t = "undefined" -> "undefined"
      [] v.t = "null" -> "null"
      [] v.t = "string" -> v.v
      [] v.t = "number" -> ToString(v.v)
      [] v.t = "array" -> JoinItems(v.items)
      [] OTHER -> "[object Object]"

\* ------------------------------- capitalizeAndReplaceUnderscores
\* str.replace("_", " "): only the first underscore
ReplaceFirstUnderscore(s) ==
    [i \in 1..Len(s) |->
        IF s[i] = 95 /\ (\A j \in 1..(i - 1) : s[j] # 95) THEN 32 ELSE s[i]]

\* str.replaceAll("_", " ")
ReplaceAllUnderscores(s) == [i \in 1..Len(s) |-> IF s[i] = 95 THEN 32 ELSE s[i]]

\* the regular expression /./ matches any code unit but a line terminator
DotMatches(c) == c \notin {10, 13, 8232, 8233}

\* String.prototype.toUpperCase on one code unit (ASCII and U+00DF)
ToUpperCase(c) ==
    IF c \in 97..122 THEN <<c - 32>>
    ELSE IF c = 223 THEN <<83, 83>>
    ELSE <<c>>

\* .replace(/^./, match => match.toUpperCase())
CapitalizeFirst(s) ==
    IF s # <<>> /\ DotMatches(s[1]) THEN ToUpperCase(s[1]) \o Tail(s) ELSE s

capitalizeAndReplaceUnderscores(s) == CapitalizeFirst(ReplaceAllUnderscores(s))

\* ------------------------------------------------ ToolInvocations
\* the literal "pause_execution"
PauseExecution == <<112, 97, 117, 115, 101, 95, 101, 120, 101, 99, 117, 116, 105, 111, 110>>

\* the comparison made on the formatted name
IsPauseExecutionDisplayed(toolName) ==
    capitalizeAndReplaceUnderscores(toolName) = PauseExecution

\* toolName === "pause_execution"
IsPauseExecution(toolName) == toolName = PauseExecution

\* Object.entries(args || {})
ObjectEntries(args) ==
    IF Truthy(args) /\ args.t = "object" THEN args.entries ELSE <<>>

\* opacity-40 unless the state is "result"
DimmedUnlessResult(state) == state # "result"

\* the className of a block carries opacity-40
Dimmed(state) == state = "call"

\* the header's status indicator
Indicator(state) ==
    IF state = "call" THEN "spinner"
    ELSE IF state = "result" THEN "check"
    ELSE "none"

\* the parameter name shown as it is
ParamRowsRawName(entries) ==
    [k \in 1..Len(entries) |->
        [key |-> entries[k][1],
         name |-> entries[k][1],
         value |-> JsString(entries[k][2])]]

\* one row per entry: key, formatted name, String(paramValue)
ParamRows(entries) ==
    [k \in 1..Len(entries) |->
        [key |-> entries[k][1],
         name |-> capitalizeAndReplaceUnderscores(entries[k][1]),
         value |-> JsString(entries[k][2])]]

\* an exception leaving the render
Throw == [t |-> "throw"]

\* a result object { type, source }; a field that is absent is Undefined
ResultObject(type, source) == [t |-> "object", type |-> type, source |-> source]
\* a source object { media_type, data }
Source(mediaType, data) == [t |-> "object", media_type |-> mediaType, data |-> data]

\* v.type for a value that is neither null nor undefined
TypeOf(v) == IF v.t = "object" /\ "type" \in DOMAIN v THEN v.type ELSE Undefined
\* v?.source
SourceOf(v) == IF v.t = "object" /\ "source" \in DOMAIN v THEN v.source ELSE Undefined
MediaTypeOf(src) == IF src.t = "object" /\ "media_type" \in DOMAIN src THEN src.media_type ELSE Undefined
DataOf(src) == IF src.t = "object" /\ "data" \in DOMAIN src THEN src.data ELSE Undefined

RECURSIVE FindLast(_)
\* the last image element instead of the first
FindLast(items) ==
    IF items = <<>> THEN Undefined
    ELSE IF Head(items).t \in {"null", "undefined"} THEN Throw
    ELSE LET later == FindLast(Tail(items))
         IN  IF later.t # "undefined" THEN later
             ELSE IF TypeOf(Head(items)) = JStr("image") THEN Head(items)
             ELSE Undefined

RECURSIVE Find(_)
\* result.find(item => item.type === "image"): reading .type of null or
\* undefined raises a TypeError
Find(items) ==
    IF items = <<>> THEN Undefined
    ELSE IF Head(items).t \in {"null", "undefined"} THEN Throw
    ELSE IF TypeOf(Head(items)) = JStr("image") THEN Head(items)
    ELSE Find(Tail(items))

\* const imageResult = ... (result is truthy here)
FindImage(result) ==
    IF result.t = "array" THEN Find(result.items)
    ELSE IF result.t = "object" /\ TypeOf(result) = JStr("image") THEN result
    ELSE Undefined

\* `data:${source.media_type};base64,${source.data}`
ImageSrc(source) ==
    "data:" \o JsString(MediaTypeOf(source)) \o ";base64," \o JsString(DataOf(source))

NoImage == [t |-> "none"]

\* the <img>: its src and the closure () => onImageClick?.(imageSrc)
Thumbnail(imageSrc, cb) ==
    [t |-> "img", src |-> imageSrc, onClick |-> [fn |-> cb, arg |-> imageSrc]]

\* the image slot without the test of the state
ImageSlotAnyState(inv, cb) ==
    IF ~Truthy(inv.result)
    THEN [t |-> "slot", wrapper |-> FALSE, img |-> NoImage]
    ELSE LET imageResult == FindImage(inv.result)
         IN  IF imageResult.t = "throw" THEN Throw
             ELSE IF Truthy(SourceOf(imageResult))
             THEN [t |-> "slot", wrapper |-> TRUE,
                   img |-> Thumbnail(ImageSrc(SourceOf(imageResult)), cb)]
             ELSE [t |-> "slot", wrapper |-> TRUE, img |-> NoImage]

\* the image part of the body: whether the 71x39 wrapper is there, and its content
ImageSlot(inv, cb) ==
    IF ~(inv.state = "result" /\ Truthy(inv.result))
    THEN [t |-> "slot", wrapper |-> FALSE, img |-> NoImage]
    ELSE LET imageResult == FindImage(inv.result)
         IN  IF imageResult.t = "throw" THEN Throw
             ELSE IF Truthy(SourceOf(imageResult))
             THEN [t |-> "slot", wrapper |-> TRUE,
                   img |-> Thumbnail(ImageSrc(SourceOf(imageResult)), cb)]
             ELSE [t |-> "slot", wrapper |-> TRUE, img |-> NoImage]

\* the key of a block
BlockKey(inv) == inv.toolCallId

\* partial-call invocations skipped like pause_execution
RenderInvocationSkipPartial(inv, cb) ==
    IF IsPauseExecution(inv.toolName) \/ inv.state = "partial-call" THEN Null
    ELSE LET slot == ImageSlot(inv, cb)
         IN  IF slot.t = "throw" THEN Throw
             ELSE [t |-> "block",
                   key |-> BlockKey(inv),
                   dimmed |-> Dimmed(inv.state),
                   header |-> capitalizeAndReplaceUnderscores(inv.toolName),
                   indicator |-> Indicator(inv.state),
                   rows |-> ParamRows(ObjectEntries(inv.args)),
                   wrapper |-> slot.wrapper,
                   img |-> slot.img]

\* the callback of toolInvocations.map: Null (nothing rendered) or a block
RenderInvocation(inv, cb) ==
    LET displayToolName == capitalizeAndReplaceUnderscores(inv.toolName)
        entries == ObjectEntries(inv.args)
    IN  IF IsPauseExecution(inv.toolName) THEN Null
        ELSE LET slot == ImageSlot(inv, cb)
             IN  IF slot.t = "throw" THEN Throw
                 ELSE [t |-> "block",
                       key |-> BlockKey(inv),
                       dimmed |-> Dimmed(inv.state),
                       header |-> displayToolName,
                       indicator |-> Indicator(inv.state),
                       rows |-> ParamRows(entries),
                       wrapper |-> slot.wrapper,
                       img |-> slot.img]

\* the component: null, the outer div with one child per invocation, or a throw
ToolInvocations(list, cb) ==
    IF ~Truthy(list) THEN Null
    ELSE LET children == [i \in 1..Len(list.items) |-> RenderInvocation(list.items[i], cb)]
         IN  IF \E i \in 1..Len(children) : children[i].t = "throw" THEN Throw
             ELSE [t |-> "div", children |-> children]

\* what React shows of an output: the children that are not null
RECURSIVE Visible(_)
Visible(children) ==
    IF children = <<>> THEN <<>>
    ELSE IF Head(children).t = "null" THEN Visible(Tail(children))
    ELSE <<Head(children)>> \o Visible(Tail(children))

Blocks(out) == IF out.t = "div" THEN Visible(out.children) ELSE <<>>

\* ------------------------------------------------------- inputs
\* the three lifecycle tags of ToolInvocation.state
States == {"call", "result", "partial-call"}

\* "go_to"
GoTo == <<103, 111, 95, 116, 111>>
ToolNames == {PauseExecution, GoTo}

\* "x_pos", "q", "opts"
XPos == <<120, 95, 112, 111, 115>>
Q == <<113>>
Opts == <<111, 112, 116, 115>>
SomeArgs ==
    JObj(<< <<XPos, JNum(10)>>, <<Q, JStr("a_b")>>,
            <<Opts, JArr(<<JNum(1), JObj(<<>>), Null>>)>> >>)
OtherArgs == JObj(<< <<Q, Null>>, <<XPos, JStr("")>> >>)
\* args absent, empty, and with entries
ArgsSet == {Undefined, JObj(<<>>), SomeArgs, OtherArgs}

Text == ResultObject(JStr("text"), Undefined)
ImageA == ResultObject(JStr("image"), Source(JStr("image/png"), JStr("AAAA")))
ImageB == ResultObject(JStr("image"), Source(JStr("image/jpeg"), JStr("BBBB")))
\* an image whose source is absent, and one whose source has no fields set
ImageNoSource == ResultObject(JStr("image"), Undefined)
ImageBareSource == ResultObject(JStr("image"), Source(Undefined, Undefined))

\* <<state, result>> pairs. The code reads result only when state is "result"
\* (line 102), so the other two states carry two or three representative results.
BasicPairs == States \X {Undefined, ImageA}
\* the shapes the declared type allows: string | Array<ImageResult> | ImageResult
ImageResults ==
    {Undefined, JStr("ok"), Text, ImageA, ImageNoSource, ImageBareSource,
     JArr(<<Text>>), JArr(<<Text, ImageB, ImageA>>), JArr(<<ImageNoSource, ImageA>>)}
ImagePairs ==
    ({"call", "partial-call"} \X {Undefined, ImageA, JArr(<<Text, ImageB, ImageA>>)})
        \cup ({"result"} \X ImageResults)
ClickPairs ==
    {<<"call", ImageA>>, <<"result", Undefined>>, <<"result", ImageA>>,
     <<"result", JArr(<<Text, ImageB, ImageA>>)>>, <<"result", ImageBareSource>>}
\* shapes outside the declared type
MalformedResults ==
    {Undefined, Null, JStr(""), JStr("ok"), JNum(7), JObj(<<>>), JArr(<<>>),
     JArr(<<JStr("x"), JNum(7), ImageA>>), JArr(<<ImageA, Null>>),
     JArr(<<Null, ImageA>>), JArr(<<Text, Undefined>>),
     ResultObject(JStr("image"), Null), ResultObject(JStr("image"), JStr("s"))}
MalformedPairs ==
    ({"call"} \X {Null, JArr(<<Null, ImageA>>)}) \cup ({"result"} \X MalformedResults)

\* the toolCallId the upstream collaborator gives the k-th invocation
CallId(k) == "t" \o ToString(k)

\* ------------------------------------------------------- the state machine
NotRun == [done |-> FALSE, v |-> <<>>]

\* the component is mounted with no invocation yet
InitView ==
    /\ toolInvocations \in {Undefined, JArr(<<>>)}
    /\ onImageClick \in BOOLEAN
    /\ output = ToolInvocations(toolInvocations, onImageClick)
    /\ calls = <<>>
    /\ clickLog = <<>>

Init ==
    /\ InitView
    /\ str = <<>>
    /\ display = NotRun

\* onClick={onImageClick?.(imageSrc)}: the callback invoked while rendering
RenderWithInvoking(list) ==
    /\ toolInvocations' = list
    /\ output' = ToolInvocations(list, onImageClick)
    /\ LET thumbs == SelectSeq(Blocks(ToolInvocations(list, onImageClick)),
                               LAMBDA b : b.img.t = "img")
       IN  calls' = IF onImageClick
                    THEN calls \o [k \in 1..Len(thumbs) |-> thumbs[k].img.src]
                    ELSE calls
    /\ UNCHANGED <<onImageClick, clickLog, str, display>>

\* the host re-renders the component with a new list
RenderWith(list) ==
    /\ toolInvocations' = list
    /\ output' = ToolInvocations(list, onImageClick)
    /\ UNCHANGED <<onImageClick, calls, clickLog, str, display>>

Items == IF Truthy(toolInvocations) THEN toolInvocations.items ELSE <<>>

\* upstream starts a tool call: a record is appended and the list re-rendered
AppendInvocation(toolName, args, state, result) ==
    /\ Len(Items) < MaxInvocations
    /\ RenderWith(JArr(Append(Items,
           [toolCallId |-> CallId(Len(Items) + 1), toolName |-> toolName,
            args |-> args, state |-> state, result |-> result])))

\* upstream progresses a tool call: its state and result change, the list is re-rendered
UpdateInvocation(i, state, result) ==
    /\ i \in 1..Len(Items)
    /\ RenderWith(JArr([Items EXCEPT ![i].state = state, ![i].result = result]))

\* a render that keeps the children of the previous one
RerenderAccumulating ==
    /\ output' = IF output.t = "div" /\ Len(output.children) < 2 * MaxInvocations
                 THEN [output EXCEPT !.children =
                          @ \o ToolInvocations(toolInvocations, onImageClick).children]
                 ELSE output
    /\ UNCHANGED <<toolInvocations, onImageClick, calls, clickLog, str, display>>

\* the host re-renders with the same props
Rerender ==
    /\ output' = ToolInvocations(toolInvocations, onImageClick)
    /\ UNCHANGED <<toolInvocations, onImageClick, calls, clickLog, str, display>>

\* the user clicks the thumbnail of the i-th child: its onClick closure runs
Click(i) ==
    /\ output.t = "div"
    /\ i \in 1..Len(output.children)
    /\ output.children[i].t = "block"
    /\ output.children[i].img.t = "img"
    /\ Len(clickLog) < MaxClicks
    /\ clickLog' = Append(clickLog, output.children[i].img.src)
    /\ LET onClick == output.children[i].img.onClick
       IN  calls' = IF onClick.fn THEN Append(calls, onClick.arg) ELSE calls
    /\ UNCHANGED <<toolInvocations, onImageClick, output, str, display>>

\* upstream streams the arguments of a tool call, the list is re-rendered
UpdateArgs(i, args) ==
    /\ i \in 1..Len(Items)
    /\ RenderWith(JArr([Items EXCEPT ![i].args = args]))

\* the list: both tool names, every state, result absent or an image
AppendBasic == \E n \in ToolNames, p \in BasicPairs :
                   AppendInvocation(n, SomeArgs, p[1], p[2])
UpdateBasic == \E i \in 1..MaxInvocations, p \in BasicPairs :
                   UpdateInvocation(i, p[1], p[2])

Next == AppendBasic \/ UpdateBasic \/ Rerender

Spec == Init /\ [][Next]_vars

\* the argument list: every args value
AppendArgs == \E a \in ArgsSet, s \in States : AppendInvocation(GoTo, a, s, Undefined)
StreamArgs == \E i \in 1..MaxInvocations, a \in ArgsSet : UpdateArgs(i, a)

NextArgs == AppendArgs \/ StreamArgs \/ Rerender

SpecArgs == Init /\ [][NextArgs]_vars

\* the image slot: every declared result shape
AppendImage == \E p \in ImagePairs : AppendInvocation(GoTo, SomeArgs, p[1], p[2])
UpdateImage == \E i \in 1..MaxInvocations, p \in ImagePairs :
                   UpdateInvocation(i, p[1], p[2])

NextImage == AppendImage \/ UpdateImage \/ Rerender

SpecImage == Init /\ [][NextImage]_vars

\* clicks on thumbnails
AppendClick == \E p \in ClickPairs : AppendInvocation(GoTo, Undefined, p[1], p[2])
UpdateClick == \E i \in 1..MaxInvocations, p \in ClickPairs :
                   UpdateInvocation(i, p[1], p[2])
ClickAny == \E i \in 1..MaxInvocations : Click(i)

NextClick == AppendClick \/ UpdateClick \/ Rerender \/ ClickAny

SpecClick == Init /\ [][NextClick]_vars

\* input outside the declared types
AppendMalformed == \E a \in {Null, SomeArgs}, p \in MalformedPairs :
                       AppendInvocation(GoTo, a, p[1], p[2])
UpdateMalformed == \E i \in 1..MaxInvocations, p \in MalformedPairs :
                       UpdateInvocation(i, p[1], p[2])

NextMalformed == AppendMalformed \/ UpdateMalformed \/ Rerender

SpecMalformed == Init /\ [][NextMalformed]_vars

\* capitalizeAndReplaceUnderscores on its own
\* "get_user_data"
GetUserData == <<103, 101, 116, 95, 117, 115, 101, 114, 95, 100, 97, 116, 97>>
\* _ a x A space 1 sharp-s newline
Alphabet == {95, 97, 120, 65, 32, 49, 223, 10}
Strings == UNION {[1..n -> Alphabet] : n \in 0..MaxLen} \cup {GetUserData}

InitFormat ==
    /\ toolInvocations = Undefined
    /\ onImageClick = FALSE
    /\ output = ToolInvocations(toolInvocations, onImageClick)
    /\ calls = <<>>
    /\ clickLog = <<>>
    /\ str \in Strings
    /\ display = NotRun

Format ==
    /\ ~display.done
    /\ display' = [done |-> TRUE, v |-> capitalizeAndReplaceUnderscores(str)]
    /\ UNCHANGED <<toolInvocations, onImageClick, output, calls, clickLog, str>>

NextFormat == Format

SpecFormat == InitFormat /\ [][NextFormat]_vars

\* ------------------------------------------------------- properties
\* the child rendered for the i-th invocation
Child(i) == output.children[i]
\* the output is the outer div with one child per invocation
Rendered == output.t = "div" /\ Len(output.children) = Len(Items)
NotPause(i) == Items[i].toolName # PauseExecution

\* C1: an invocation whose toolName is exactly "pause_execution" produces no
\* visual block, whatever its state, args and result, in every render.
C1_PauseExecutionHidden ==
    Truthy(toolInvocations) =>
        /\ Rendered
        /\ \A i \in 1..Len(Items) :
              Items[i].toolName = PauseExecution =>
                  /\ Child(i).t = "null"
                  /\ \A k \in 1..Len(Blocks(output)) :
                        Blocks(output)[k].key # Items[i].toolCallId

\* a pause_execution invocation in state "result" carrying an image, rendered
\* beside a block
C1_Witness ==
    /\ Len(Items) = 2
    /\ Items[2].toolName = PauseExecution
    /\ Items[2].state = "result"
    /\ Items[2].result = ImageA
    /\ Len(Blocks(output)) = 1

RECURSIVE ExpectedKeys(_)
\* the toolCallIds of the invocations that are not pause_execution, in input order
ExpectedKeys(items) ==
    IF items = <<>> THEN <<>>
    ELSE IF Head(items).toolName = PauseExecution THEN ExpectedKeys(Tail(items))
    ELSE <<Head(items).toolCallId>> \o ExpectedKeys(Tail(items))

\* C2: the rendered blocks are, in order, the invocations that are not
\* pause_execution, each once, each keyed by its toolCallId.
C2_BlocksInInputOrder ==
    Truthy(toolInvocations) =>
        /\ Rendered
        /\ [k \in 1..Len(Blocks(output)) |-> Blocks(output)[k].key] = ExpectedKeys(Items)

\* two blocks rendered, the first for a partial-call
C2_Witness ==
    /\ Len(Items) = 2
    /\ Items[1].state = "partial-call"
    /\ Len(Blocks(output)) = 2
    /\ Blocks(output)[1].key = "t1"
    /\ Blocks(output)[2].key = "t2"

\* C3: the status indicator and the reduced opacity of a block are fixed by
\* its state: call gives spinner and dimmed, result gives checkmark and not
\* dimmed, partial-call gives no indicator and not dimmed.
C3_IndicatorByState ==
    Truthy(toolInvocations) =>
        /\ Rendered
        /\ \A i \in 1..Len(Items) :
              NotPause(i) =>
                  /\ Child(i).t = "block"
                  /\ Items[i].state = "call" =>
                        Child(i).indicator = "spinner" /\ Child(i).dimmed
                  /\ Items[i].state = "result" =>
                        Child(i).indicator = "check" /\ ~Child(i).dimmed
                  /\ Items[i].state = "partial-call" =>
                        Child(i).indicator = "none" /\ ~Child(i).dimmed

\* a block in each of call and partial-call, both rendered
C3_Witness ==
    /\ Len(Items) = 2
    /\ NotPause(1) /\ NotPause(2)
    /\ Items[1].state = "call" /\ Child(1).indicator = "spinner"
    /\ Items[2].state = "partial-call" /\ Child(2).indicator = "none"

\* C4: a thumbnail is rendered only when state is "result" and a result is
\* present; state "result" without a result still shows the checkmark and
\* the argument rows.
C4_ImageOnlyForResult ==
    Truthy(toolInvocations) =>
        /\ Rendered
        /\ \A i \in 1..Len(Items) :
              NotPause(i) =>
                  /\ Child(i).img.t = "img" =>
                        Items[i].state = "result" /\ Items[i].result # Undefined
                  /\ (Items[i].state = "result" /\ Items[i].result = Undefined) =>
                        /\ Child(i).img.t = "none"
                        /\ Child(i).indicator = "check"
                        /\ Len(Child(i).rows) = Len(Items[i].args.entries)

\* a call carrying an image without a thumbnail, beside a result without a result field
C4_Witness ==
    /\ Len(Items) = 2
    /\ Items[1].state = "call" /\ Items[1].result = ImageA /\ Child(1).img.t = "none"
    /\ Items[2].state = "result" /\ Items[2].result = Undefined
    /\ Len(Child(2).rows) = 3

IsImage(v) == v.t = "object" /\ "type" \in DOMAIN v /\ v.type = JStr("image")
\* the element the claim selects: the first image element of a sequence, or
\* the single object if it is an image; Undefined when there is none
Selected(r) ==
    IF r.t = "array"
    THEN LET idx == {j \in 1..Len(r.items) : IsImage(r.items[j])}
         IN  IF idx = {} THEN Undefined
             ELSE r.items[CHOOSE j \in idx : \A k \in idx : j <= k]
    ELSE IF IsImage(r) THEN r
    ELSE Undefined

\* "data:" + media_type + ";base64," + data of the sources used as input
ExpectedSrc(source) ==
    CASE source = ImageA.source -> "data:image/png;base64,AAAA"
      [] source = ImageB.source -> "data:image/jpeg;base64,BBBB"
      [] source = ImageBareSource.source -> "data:undefined;base64,undefined"

\* C5: with state "result" and a result present, the thumbnail is rendered
\* iff the selected element (first image of a sequence, or the single image
\* object) exists and has a source, and its src is the data URI of that source.
C5_ImageExtraction ==
    Truthy(toolInvocations) =>
        /\ Rendered
        /\ \A i \in 1..Len(Items) :
              (NotPause(i) /\ Items[i].state = "result" /\ Items[i].result # Undefined) =>
                  LET sel == Selected(Items[i].result)
                  IN  IF sel # Undefined /\ sel.source # Undefined
                      THEN /\ Child(i).img.t = "img"
                           /\ Child(i).img.src = ExpectedSrc(sel.source)
                      ELSE Child(i).img.t = "none"

\* a sequence whose first image follows a text element and precedes another
\* image, beside a sequence whose first image has no source
C5_Witness ==
    /\ Len(Items) = 2
    /\ Items[1].state = "result" /\ Items[1].result = JArr(<<Text, ImageB, ImageA>>)
    /\ Child(1).img.t = "img" /\ Child(1).img.src = "data:image/jpeg;base64,BBBB"
    /\ Items[2].state = "result" /\ Items[2].result = JArr(<<ImageNoSource, ImageA>>)
    /\ Child(2).img.t = "none"

\* C6: onImageClick is invoked only by a click on a thumbnail, once per click,
\* with that thumbnail's src; renders never invoke it; without the callback a
\* click invokes nothing.
C6_CallbackOnlyOnClick ==
    calls = IF onImageClick THEN clickLog ELSE <<>>

\* two clicks on thumbnails with different sources, each reported
C6_Witness ==
    /\ onImageClick
    /\ Len(calls) = 2
    /\ calls[1] = "data:image/png;base64,AAAA"
    /\ calls[2] = "data:image/jpeg;base64,BBBB"
    /\ Len(Blocks(output)) = 2

\* C7: no input makes a render raise.
C7_NeverThrows == output.t # "throw"

\* C8: the body has one row per entry of args, in iteration order, showing the
\* formatted name and the value's plain string conversion; none for {} and
\* for absent args.
C8_ArgumentRows ==
    Truthy(toolInvocations) =>
        /\ Rendered
        /\ \A i \in 1..Len(Items) :
              LET a == Items[i].args
                  n == IF a.t = "object" THEN Len(a.entries) ELSE 0
              IN  /\ Len(Child(i).rows) = n
                  /\ \A k \in 1..n :
                        /\ Child(i).rows[k].name = capitalizeAndReplaceUnderscores(a.entries[k][1])
                        /\ Child(i).rows[k].value = JsString(a.entries[k][2])
                        /\ a.entries[k][2].t = "string" =>
                              Child(i).rows[k].value = a.entries[k][2].v
                  /\ a = SomeArgs =>
                        /\ Child(i).rows[1] = [key |-> XPos, name |-> <<88, 32, 112, 111, 115>>, value |-> "10"]
                        /\ Child(i).rows[2].value = "a_b"
                        /\ Child(i).rows[3].value = "1,[object Object],"

\* three rows beside none
C8_Witness ==
    /\ Len(Items) = 2
    /\ Items[1].args = SomeArgs /\ Len(Child(1).rows) = 3
    /\ Items[2].args = Undefined /\ Len(Child(2).rows) = 0

\* the uppercase form of a code unit of the alphabet
UpperForm(c) ==
    CASE c = 97 -> <<65>>
      [] c = 120 -> <<88>>
      [] c = 103 -> <<71>>
      [] c = 223 -> <<83, 83>>
      [] OTHER -> <<c>>

\* C9 as stated: the result has the length of s, no underscore, a space where
\* s has an underscore, the uppercase form of its first character at position
\* 0, and the characters of s everywhere else.
C9_LengthPreserved ==
    display.done =>
        /\ Len(display.v) = Len(str)
        /\ \A i \in 1..Len(str) :
              /\ display.v[i] # 95
              /\ str[i] = 95 => display.v[i] = 32
              /\ (i > 1 /\ str[i] # 95) => display.v[i] = str[i]
        /\ str # <<>> =>
              <<display.v[1]>> = UpperForm(IF str[1] = 95 THEN 32 ELSE str[1])

\* C9 amended: the result is the uppercase form of the first character after
\* replacement, which may be longer than one code unit, followed by the other
\* characters of s with every underscore replaced by a space.
C9_CapitalizeAndReplace ==
    display.done =>
        /\ str = <<>> => display.v = <<>>
        /\ str # <<>> =>
              LET u == UpperForm(IF str[1] = 95 THEN 32 ELSE str[1])
              IN  /\ Len(display.v) = Len(str) - 1 + Len(u)
                  /\ SubSeq(display.v, 1, Len(u)) = u
                  /\ \A i \in 2..Len(str) :
                        display.v[i - 1 + Len(u)] = IF str[i] = 95 THEN 32 ELSE str[i]
                  /\ Len(u) = 1 => Len(display.v) = Len(str)
        /\ str = <<120>> => display.v = <<88>>
        /\ str = GetUserData =>
              display.v = <<71, 101, 116, 32, 117, 115, 101, 114, 32, 100, 97, 116, 97>>
        /\ (str # <<>> /\ str[1] = 95) => display.v[1] = 32

\* "a__" formatted: both underscores replaced, the first letter capitalized
C9_Witness ==
    /\ display.done
    /\ str = <<97, 95, 95>>
    /\ display.v = <<65, 32, 32>>

====
